---- MODULE Spec2Model ----
(***************************************************************************)
(* Model of econf.Config (src/econf/__init__.py): the option registry,     *)
(* its three sources of values (parsed command line, INI store, defaults)  *)
(* and the conversion of stored strings to typed values.                   *)
(*                                                                         *)
(* Python strings are sequences of one-character strings, so that str(),   *)
(* int(), lower(), upper(), replace() and "+" are computed, not assumed.   *)
(* Python values are records [t |-> type name, v |-> payload].             *)
(***************************************************************************)
EXTENDS Integers, Sequences, FiniteSets, TLC

VARIABLES
    _opt_parser,     \* optparse.OptionParser: the registered options
    _options,        \* optparse.Values of the last parse, or None
    _config_parser,  \* ConfigParser: [defaults, sections]
    _required,       \* list of (section, option)
    _converters,     \* dict (section, option) -> type
    declared,        \* history: the default the latest define of each key gave
    loaded,          \* history: values a loaded file gave, per (section, option)
    ncalls,          \* number of define and __call__ calls made
    groups,          \* the option descriptors of the BaseConf classes created
    ret              \* the last call: its arguments and its outcome

vars == <<_opt_parser, _options, _config_parser, _required, _converters,
          declared, loaded, ncalls, groups, ret>>

----------------------------------------------------------------------------
(* Bounds of the model. *)

\* The number of calls that change the registry (define, a class statement
\* of a BaseConf, __call__) a behaviour makes; lookups and dumps are not
\* counted.
MaxCalls == 2

----------------------------------------------------------------------------
(* Python values. *)

PyNone == [t |-> "None", v |-> <<>>]
PyStr(s) == [t |-> "str", v |-> s]
PyInt(n) == [t |-> "int", v |-> n]
PyBool(b) == [t |-> "bool", v |-> b]

\* The strings the model uses.
port == <<"p", "o", "r", "t">>
zk == <<"z", "k">>
conf == <<"c", "o", "n", "f">>
version == <<"v", "e", "r", "s", "i", "o", "n">>
s_t == <<"t">>
s_8080 == <<"8", "0", "8", "0">>
s_empty == <<>>
path_a == <<"a">>
path_b == <<"b">>

DEFAULTSECT == <<"D", "E", "F", "A", "U", "L", "T">>

\* str(object()): a text no caller and no file can supply. The code tests
\* for it by identity; no other string of the model has this text, so
\* equality of texts decides identity here.
UNSET == PyStr(<<"<", "o", "b", "j", "e", "c", "t", ">">>)

Digits == <<"0", "1", "2", "3", "4", "5", "6", "7", "8", "9">>

IsDigit(c) == \E i \in 1..10 : Digits[i] = c
DigitVal(c) == (CHOOSE i \in 1..10 : Digits[i] = c) - 1

LowerCase == <<"a", "d", "e", "f", "k", "l", "t", "u", "z">>
UpperCase == <<"A", "D", "E", "F", "K", "L", "T", "U", "Z">>

lowerChar(c) ==
    IF \E i \in 1..Len(UpperCase) : UpperCase[i] = c
    THEN LowerCase[CHOOSE i \in 1..Len(UpperCase) : UpperCase[i] = c]
    ELSE c

upperChar(c) ==
    IF \E i \in 1..Len(LowerCase) : LowerCase[i] = c
    THEN UpperCase[CHOOSE i \in 1..Len(LowerCase) : LowerCase[i] = c]
    ELSE c

\* str.lower(), str.upper(), str.replace('_', '-')
lower(s) == [i \in 1..Len(s) |-> lowerChar(s[i])]
upper(s) == [i \in 1..Len(s) |-> upperChar(s[i])]
replace(s) == [i \in 1..Len(s) |-> IF s[i] = "_" THEN "-" ELSE s[i]]

RECURSIVE intToStr(_)
intToStr(n) ==
    IF n < 10 THEN <<Digits[n + 1]>>
    ELSE intToStr(n \div 10) \o <<Digits[(n % 10) + 1]>>

RECURSIVE strToInt(_)
strToInt(s) ==
    IF Len(s) = 1 THEN DigitVal(s[1])
    ELSE 10 * strToInt(SubSeq(s, 1, Len(s) - 1)) + DigitVal(s[Len(s)])

\* bool(obj)
truthy(obj) ==
    CASE obj.t = "None" -> FALSE
      [] obj.t = "str" -> Len(obj.v) > 0
      [] obj.t = "int" -> obj.v # 0
      [] obj.t = "bool" -> obj.v
      [] obj.t = "Values" -> TRUE

\* "a is b": the same type and the same payload
is(a, b) == a.t = b.t /\ a.v = b.v

\* str(obj); str of a str is the same object
str(obj) ==
    CASE obj.t = "str" -> obj
      [] obj.t = "int" -> PyStr(intToStr(obj.v))
      [] obj.t = "bool" ->
            PyStr(IF obj.v THEN <<"T", "r", "u", "e">>
                  ELSE <<"F", "a", "l", "s", "e">>)
      [] obj.t = "None" -> PyStr(<<"N", "o", "n", "e">>)

\* An outcome of a call: a returned value or a raised exception.
Return(val) == [exc |-> "none", val |-> val]
Raise(exc) == [exc |-> exc, val |-> PyNone]

\* int(obj): a string of decimal digits parses, any other string raises
int(obj) ==
    CASE obj.t = "int" -> Return(obj)
      [] obj.t = "bool" -> Return(PyInt(IF obj.v THEN 1 ELSE 0))
      [] obj.t = "str" ->
            IF Len(obj.v) > 0 /\ \A i \in 1..Len(obj.v) : IsDigit(obj.v[i])
            THEN Return(PyInt(strToInt(obj.v)))
            ELSE Raise("ValueError")
      [] obj.t = "None" -> Raise("TypeError")

TrueTokens == {<<"T", "r", "u", "e">>, <<"t", "r", "u", "e">>, <<"T">>, <<"t">>}

en_bool(obj) ==
    IF obj.t = "str" THEN PyBool(obj.v \in TrueTokens)
    ELSE PyBool(truthy(obj))

\* The converters an option can be declared with: str, int, BoolOpt.type().
Types == {"str", "int", "bool"}

convert(type, obj) ==
    CASE type = "str" -> Return(str(obj))
      [] type = "int" -> int(obj)
      [] type = "bool" -> Return(en_bool(obj))

\* convert(val), where the evaluation of val may have raised
converted(type, val) == IF val.exc # "none" THEN val ELSE convert(type, val.val)

----------------------------------------------------------------------------
(* Python dicts that keep insertion order: sequences of [k, v]. *)

DictHas(d, k) == \E i \in 1..Len(d) : d[i].k = k
DictGet(d, k) == d[CHOOSE i \in 1..Len(d) : d[i].k = k].v
DictSet(d, k, v) ==
    IF DictHas(d, k)
    THEN [i \in 1..Len(d) |-> IF d[i].k = k THEN [k |-> k, v |-> v] ELSE d[i]]
    ELSE Append(d, [k |-> k, v |-> v])
DictKeys(d) == [i \in 1..Len(d) |-> d[i].k]

RECURSIVE DictUpdate(_, _)
DictUpdate(d, e) ==
    IF e = <<>> THEN d
    ELSE DictUpdate(DictSet(d, Head(e).k, Head(e).v), Tail(e))

----------------------------------------------------------------------------
(* The ConfigParser the registry owns: _defaults is the DEFAULT section,  *)
(* _sections the others, in the order they were added. Option names are   *)
(* stored through optionxform, which lowercases them.                      *)

optionxform(option) == lower(option)

has_section(cp, section) == DictHas(cp.sections, section)

\* add_section raises ValueError for DEFAULT and DuplicateSectionError for
\* a section that exists; define swallows both.
add_section(cp, section) ==
    IF section = DEFAULTSECT \/ has_section(cp, section) THEN cp
    ELSE [cp EXCEPT !.sections = Append(@, [k |-> section, v |-> <<>>])]

\* set(section, option, value), on a section that exists
cp_set(cp, section, option, value) ==
    IF section = DEFAULTSECT
    THEN [cp EXCEPT !.defaults = DictSet(@, optionxform(option), value)]
    ELSE [cp EXCEPT !.sections =
            DictSet(@, section,
                    DictSet(DictGet(@, section), optionxform(option), value))]

\* get(section, option): the section's own value, else the DEFAULT
\* section's; NoSectionError and NoOptionError otherwise. Interpolation
\* leaves a value without "%" as it is.
cp_get(cp, section, option) ==
    IF section # DEFAULTSECT /\ ~has_section(cp, section)
    THEN Raise("NoSectionError")
    ELSE LET own == IF section = DEFAULTSECT THEN <<>>
                    ELSE DictGet(cp.sections, section)
             key == optionxform(option)
         IN  IF DictHas(own, key) THEN Return(PyStr(DictGet(own, key)))
             ELSE IF DictHas(cp.defaults, key)
                  THEN Return(PyStr(DictGet(cp.defaults, key)))
                  ELSE Raise("NoOptionError")

\* read(filename): the file's sections and options are merged into the
\* parser; what the file does not mention stays.
RECURSIVE cp_read(_, _)
cp_read(cp, file) ==
    IF file = <<>> THEN cp
    ELSE LET sec == Head(file).k
             opts == Head(file).v
             cp1 == add_section(cp, sec)
             cp2 == IF sec = DEFAULTSECT
                    THEN [cp1 EXCEPT !.defaults = DictUpdate(@, opts)]
                    ELSE [cp1 EXCEPT !.sections =
                            DictSet(@, sec, DictUpdate(DictGet(@, sec), opts))]
         IN  cp_read(cp2, Tail(file))

----------------------------------------------------------------------------
(* The world outside the registry: the files that exist and what the      *)
(* INI reader finds in them, and the inputs the calls are tried with.      *)

Files ==
    (path_a :> << [k |-> DEFAULTSECT, v |-> << [k |-> port, v |-> <<"8", "0">>] >>],
                  [k |-> zk, v |-> << [k |-> port, v |-> s_t] >>] >>)
    @@ (path_b :> << [k |-> zk, v |-> << [k |-> port, v |-> s_empty] >>] >>)

\* os.path.exists
exists(path) == path.v \in DOMAIN Files

Names == {port}
SectionArgs == {PyNone, PyStr(zk)}
Defaults == {UNSET, PyInt(9090)}
NoKwargs == [has_default |-> FALSE, default |-> PyNone]
Kwargs == {NoKwargs, [has_default |-> TRUE, default |-> PyStr(s_t)]}
ConfArgs == {PyNone, PyStr(path_a)}
DefaultConfArgs == {PyNone, PyStr(path_b)}
FlagArgs == {PyNone, PyStr(s_empty), PyStr(s_8080)}
OptNames == {PyNone, PyStr(port)}

----------------------------------------------------------------------------
(* Python's "a or b" and "a and b". *)

or(a, b) == IF truthy(a) THEN a ELSE b
and(a, b) == IF truthy(a) THEN b ELSE a

\* getattr(values, name, None) on an optparse.Values
getattr(values, name) ==
    IF name \in DOMAIN values.v THEN values.v[name] ELSE PyNone

----------------------------------------------------------------------------
(* Config. self is the record of the fields the lookups read.             *)

\* Config._cmd_option
_cmd_option(section, option) ==
    IF upper(section) # DEFAULTSECT
    THEN lower(section) \o <<"_">> \o option
    ELSE option

\* Config._get with the stored value tried before the command line
_get_file_first(self, option, section, kwargs) ==
    LET sec == or(section, PyStr(DEFAULTSECT)).v
        cmd_option == _cmd_option(sec, option)
        value == and(self._options, getattr(self._options, cmd_option))
        stored == cp_get(self._config_parser, sec, option)
    IN  IF stored.exc # "none" THEN Raise("UndefinedOption")
        ELSE IF ~is(stored.val, UNSET) THEN stored
        ELSE IF ~is(value, PyNone) THEN Return(value)
        ELSE IF kwargs.has_default THEN Return(kwargs.default)
        ELSE Raise("UnsetOption")

\* Config._get with "if value:" for "if value is not UNSET:"
_get_truthy(self, option, section, kwargs) ==
    LET sec == or(section, PyStr(DEFAULTSECT)).v
        cmd_option == _cmd_option(sec, option)
        value == and(self._options, getattr(self._options, cmd_option))
        stored == cp_get(self._config_parser, sec, option)
    IN  IF ~is(value, PyNone) THEN Return(value)
        ELSE IF stored.exc # "none" THEN Raise("UndefinedOption")
        ELSE IF truthy(stored.val) THEN stored
        ELSE IF kwargs.has_default THEN Return(kwargs.default)
        ELSE Raise("UnsetOption")

\* Config._get with "if value:" for "if value is not None:"
_get_cmd_truthy(self, option, section, kwargs) ==
    LET sec == or(section, PyStr(DEFAULTSECT)).v
        cmd_option == _cmd_option(sec, option)
        value == and(self._options, getattr(self._options, cmd_option))
        stored == cp_get(self._config_parser, sec, option)
    IN  IF truthy(value) THEN Return(value)
        ELSE IF stored.exc # "none" THEN Raise("UndefinedOption")
        ELSE IF ~is(stored.val, UNSET) THEN stored
        ELSE IF kwargs.has_default THEN Return(kwargs.default)
        ELSE Raise("UnsetOption")

\* Config._get
_get(self, option, section, kwargs) ==
    LET sec == or(section, PyStr(DEFAULTSECT)).v
        cmd_option == _cmd_option(sec, option)
        value == and(self._options, getattr(self._options, cmd_option))
        stored == cp_get(self._config_parser, sec, option)
    IN  IF ~is(value, PyNone) THEN Return(value)
        ELSE IF stored.exc # "none" THEN Raise("UndefinedOption")
        ELSE IF ~is(stored.val, UNSET) THEN stored
        ELSE IF kwargs.has_default THEN Return(kwargs.default)
        ELSE Raise("UnsetOption")

\* Config.get without the conversion
get_unconverted(self, option, section, kwargs) ==
    _get(self, option, section, kwargs)

\* Config.get
get(self, option, section, kwargs) ==
    LET sec == or(section, PyStr(DEFAULTSECT)).v
        type == IF <<sec, option>> \in DOMAIN self._converters
                THEN self._converters[<<sec, option>>]
                ELSE "str"
    IN  converted(type, _get(self, option, PyStr(sec), kwargs))

\* BaseOpt.__get__: the descriptor's own converter applied to what _get
\* gives for the descriptor's name in the owner's section
\* (getattr(owner, "__section__", DEFAULTSECT)); no call-time default.
__get__(self, opt, owner) ==
    LET section == IF owner.section.t = "None" THEN DEFAULTSECT
                   ELSE owner.section.v
    IN  converted(opt.type, _get(self, opt.name, PyStr(section), NoKwargs))

\* Config.options
options(self, section) ==
    IF is(section, PyNone) \/ is(section, PyStr(DEFAULTSECT))
    THEN DictKeys(self._config_parser.defaults)
    ELSE DictKeys(DictGet(self._config_parser.sections, section.v))

\* The check of the required options in Config.__call__: the first lookup
\* that raises or gives a falsy value ends the loop.
RECURSIVE check_required_loop(_, _)
check_required_loop(self, required) ==
    IF required = <<>> THEN Return(PyNone)
    ELSE LET got == get(self, Head(required)[2], PyStr(Head(required)[1]), NoKwargs)
         IN  IF got.exc # "none" THEN got
             ELSE IF ~truthy(got.val) THEN Raise("AssertionError")
             ELSE check_required_loop(self, Tail(required))

\* The path Config.__call__ reads: the one given on the command line, or
\* else the default_conf parameter.
config_file(parsed, default_conf) ==
    or(and(parsed, getattr(parsed, conf)), default_conf)

\* The lines Config.dump logs for the options `names` of one section,
\* after `lines`; a lookup that raises ends the dump.
RECURSIVE dump_options(_, _, _, _)
dump_option(self, section, names, lines, value) ==
    IF value.exc # "none" THEN [exc |-> value.exc, lines |-> lines]
    ELSE dump_options(self, section, Tail(names),
            Append(lines, [section |-> or(section, PyStr(DEFAULTSECT)).v,
                           name |-> Head(names),
                           value |-> str(value.val).v]))

dump_options(self, section, names, lines) ==
    IF names = <<>> THEN [exc |-> "none", lines |-> lines]
    ELSE dump_option(self, section, names, lines,
                     get(self, Head(names), section, NoKwargs))

\* The lines of the sections after the first of `sections`, whose lines
\* are `done`.
RECURSIVE dump_sections(_, _, _)
dump_section(self, sections, done) ==
    IF done.exc # "none" THEN done
    ELSE dump_sections(self, Tail(sections), done.lines)

dump_sections(self, sections, lines) ==
    IF sections = <<>> THEN [exc |-> "none", lines |-> lines]
    ELSE dump_section(self, sections,
            dump_options(self, PyStr(Head(sections)),
                         options(self, PyStr(Head(sections))),
                         Append(lines, [section |-> Head(sections),
                                        name |-> <<>>, value |-> <<>>])))

\* Config.dump: the DEFAULT section, then the others
dump(self) ==
    dump_section(self, <<DEFAULTSECT>> \o DictKeys(self._config_parser.sections),
        dump_options(self, PyNone, options(self, PyNone),
                     <<[section |-> DEFAULTSECT, name |-> <<>>, value |-> <<>>]>>))

----------------------------------------------------------------------------
(* optparse.OptionParser: the option strings registered and the attribute *)
(* of the parsed Values each one fills.                                    *)

long_opt(name) == <<"-", "-">> \o replace(name)

\* OptionParser.add_option: an option string registered twice is an
\* OptionConflictError.
add_option(parser, opt, dest) ==
    IF \E o \in parser : o.opt = opt
    THEN [exc |-> "OptionConflictError", parser |-> parser]
    ELSE [exc |-> "none", parser |-> parser \cup {[opt |-> opt, dest |-> dest]}]

\* The attributes a parse gives the Values: one per registered "dest".
dests(parser) == {o.dest.v : o \in {q \in parser : q.dest.t = "str"}}

\* The Values a command line can parse to, given the registered options.
ParsedValues(parser) ==
    {[t |-> "Values", v |-> [d \in dests(parser) |-> IF d = conf THEN c ELSE f[d]]] :
        c \in ConfArgs, f \in [dests(parser) \ {conf} -> FlagArgs]}

----------------------------------------------------------------------------
(* The state and the calls. *)

Self == [_options |-> _options,
         _config_parser |-> _config_parser,
         _converters |-> _converters]

\* Config.__init__
Init ==
    /\ _opt_parser = {[opt |-> long_opt(conf), dest |-> PyStr(conf)],
                      [opt |-> long_opt(version), dest |-> PyNone]}
    /\ _options = PyNone
    /\ _config_parser = [defaults |-> <<>>, sections |-> <<>>]
    /\ _required = <<>>
    /\ _converters = <<>>
    /\ declared = <<>>
    /\ loaded = <<>>
    /\ ncalls = 0
    /\ groups = {}
    /\ ret = [op |-> "__init__", args |-> <<>>, out |-> Return(PyNone)]

\* Config.define
define(option, section, type, default, cmdline, required) ==
    /\ ncalls < MaxCalls
    /\ ncalls' = ncalls + 1
    /\ LET sec == or(section, PyStr(DEFAULTSECT)).v
           cmd_option == _cmd_option(sec, option)
           added == IF cmdline
                    THEN add_option(_opt_parser, long_opt(cmd_option), PyStr(cmd_option))
                    ELSE [exc |-> "none", parser |-> _opt_parser]
           args == [option |-> option, section |-> section, type |-> type,
                    default |-> default, cmdline |-> cmdline, required |-> required]
       IN  IF added.exc # "none"
           THEN /\ ret' = [op |-> "define", args |-> args, out |-> Raise(added.exc)]
                /\ UNCHANGED <<_opt_parser, _options, _config_parser, _required,
                               _converters, declared, loaded, groups>>
           ELSE /\ _opt_parser' = added.parser
                /\ _converters' = (<<sec, option>> :> type) @@ _converters
                /\ _config_parser' =
                       cp_set(add_section(_config_parser, sec), sec, option,
                              str(default).v)
                /\ _required' = IF required THEN Append(_required, <<sec, option>>)
                                ELSE _required
                /\ declared' = (<<sec, option>> :> default) @@ declared
                /\ ret' = [op |-> "define", args |-> args, out |-> Return(PyNone)]
                /\ UNCHANGED <<_options, loaded, groups>>

\* The values a file gives, per (section, option)
FileKeys(file) ==
    UNION {{<<file[i].k, file[i].v[j].k>> : j \in 1..Len(file[i].v)} :
            i \in 1..Len(file)}
FileValues(file) ==
    [key \in FileKeys(file) |-> DictGet(DictGet(file, key[1]), key[2])]

\* Config.__call__, with the parse of the command line as its input:
\* args are the positional arguments it leaves, parsed the Values.
__call__(default_conf, check_required, args, parsed) ==
    /\ ncalls < MaxCalls
    /\ ncalls' = ncalls + 1
    /\ LET call == [default_conf |-> default_conf, check_required |-> check_required,
                    args |-> args]
           path == config_file(parsed, default_conf)
           found == truthy(path) /\ exists(path)
           parser == IF found THEN cp_read(_config_parser, Files[path.v])
                     ELSE _config_parser
           self == [_options |-> parsed, _config_parser |-> parser,
                    _converters |-> _converters]
           checked == IF check_required THEN check_required_loop(self, _required)
                      ELSE Return(PyNone)
       IN  IF args
           THEN /\ ret' = [op |-> "__call__", args |-> call,
                           out |-> Raise("SystemExit"), read |-> PyNone]
                /\ UNCHANGED <<_opt_parser, _options, _config_parser, _required,
                               _converters, declared, loaded, groups>>
           ELSE /\ _options' = parsed
                /\ _config_parser' = parser
                /\ loaded' = IF found THEN FileValues(Files[path.v]) @@ loaded
                             ELSE loaded
                /\ ret' = [op |-> "__call__", args |-> call, out |-> checked,
                           read |-> IF found THEN path ELSE PyNone]
                /\ UNCHANGED <<_opt_parser, _required, _converters, declared,
                               groups>>

\* ConfMeta.__new__ for a class statement with one option descriptor as
\* the attribute attr: the descriptor takes the attribute's name if it has
\* none, and add_opt passes it to define under the class's __section__
\* (section is None for a class without one). What define raises leaves
\* the class statement, and no class is made.
ConfMeta(attr, section, name, type, default, cmdline, required) ==
    /\ ncalls < MaxCalls
    /\ ncalls' = ncalls + 1
    /\ LET sec == IF section.t = "None" THEN DEFAULTSECT ELSE section.v
           option == or(name, PyStr(attr)).v
           cmd_option == _cmd_option(sec, option)
           added == IF cmdline
                    THEN add_option(_opt_parser, long_opt(cmd_option), PyStr(cmd_option))
                    ELSE [exc |-> "none", parser |-> _opt_parser]
           args == [option |-> option, section |-> PyStr(sec), type |-> type,
                    default |-> default, cmdline |-> cmdline, required |-> required]
       IN  IF added.exc # "none"
           THEN /\ ret' = [op |-> "ConfMeta", args |-> args, out |-> Raise(added.exc)]
                /\ UNCHANGED <<_opt_parser, _options, _config_parser, _required,
                               _converters, declared, loaded, groups>>
           ELSE /\ _opt_parser' = added.parser
                /\ _converters' = (<<sec, option>> :> type) @@ _converters
                /\ _config_parser' =
                       cp_set(add_section(_config_parser, sec), sec, option,
                              str(default).v)
                /\ _required' = IF required THEN Append(_required, <<sec, option>>)
                                ELSE _required
                /\ declared' = (<<sec, option>> :> default) @@ declared
                /\ groups' = groups \cup
                       {[section |-> section, opt |-> [name |-> option, type |-> type]]}
                /\ ret' = [op |-> "ConfMeta", args |-> args, out |-> Return(PyNone)]
                /\ UNCHANGED <<_options, loaded>>

\* A read of the option attribute of a class made before
Attr(owner) ==
    /\ ret' = [op |-> "__get__",
               args |-> [option |-> owner.opt.name, section |-> owner.section,
                         type |-> owner.opt.type],
               out |-> __get__(Self, owner.opt, owner)]
    /\ UNCHANGED <<_opt_parser, _options, _config_parser, _required, _converters,
                   declared, loaded, ncalls, groups>>

\* A call of Config.get
Get(option, section, kwargs) ==
    /\ ret' = [op |-> "get",
               args |-> [option |-> option, section |-> section, kwargs |-> kwargs],
               out |-> get(Self, option, section, kwargs)]
    /\ UNCHANGED <<_opt_parser, _options, _config_parser, _required, _converters,
                   declared, loaded, ncalls, groups>>

\* A call of Config.dump
Dump ==
    /\ ret' = [op |-> "dump", args |-> <<>>, out |-> dump(Self)]
    /\ UNCHANGED <<_opt_parser, _options, _config_parser, _required, _converters,
                   declared, loaded, ncalls, groups>>

Next ==
    \/ \E option \in Names, section \in SectionArgs, type \in Types,
          default \in Defaults, cmdline \in BOOLEAN, required \in BOOLEAN :
            define(option, section, type, default, cmdline, required)
    \/ \E default_conf \in DefaultConfArgs, check_required \in BOOLEAN :
            \/ \E parsed \in ParsedValues(_opt_parser) :
                    __call__(default_conf, check_required, FALSE, parsed)
            \/ __call__(default_conf, check_required, TRUE, PyNone)
    \/ \E option \in Names, section \in SectionArgs, kwargs \in Kwargs :
            Get(option, section, kwargs)
    \/ Dump

\* The registry used through its own methods
Spec == Init /\ [][Next]_vars

\* The registry with every option declared by a BaseConf class
BindingNext ==
    \/ \E default_conf \in DefaultConfArgs, check_required \in BOOLEAN :
            \/ \E parsed \in ParsedValues(_opt_parser) :
                    __call__(default_conf, check_required, FALSE, parsed)
            \/ __call__(default_conf, check_required, TRUE, PyNone)
    \/ \E option \in Names, section \in SectionArgs, kwargs \in Kwargs :
            Get(option, section, kwargs)
    \/ \E attr \in Names, section \in SectionArgs, name \in OptNames, type \in Types,
          default \in Defaults, cmdline \in BOOLEAN, required \in BOOLEAN :
            ConfMeta(attr, section, name, type, default, cmdline, required)
    \/ \E owner \in groups : Attr(owner)

BindingSpec == Init /\ [][BindingNext]_vars

----------------------------------------------------------------------------
(* What the properties below speak of. *)

\* The (section, option) a call names
KeyOf(args) == <<or(args.section, PyStr(DEFAULTSECT)).v, args.option>>

IsDeclared(key) == key \in DOMAIN declared

\* The value the parsed command line holds for the flag derived from key
CmdValue(key) ==
    IF _options.t = "Values" /\ _cmd_option(key[1], key[2]) \in DOMAIN _options.v
    THEN _options.v[_cmd_option(key[1], key[2])]
    ELSE PyNone
HasCmdValue(key) == CmdValue(key).t # "None"

\* The value a loaded file gave for key
FileGave(key) == <<key[1], optionxform(key[2])>> \in DOMAIN loaded
FileValue(key) == PyStr(loaded[<<key[1], optionxform(key[2])>>])

\* The value the store holds for key
Stored(key) == cp_get(_config_parser, key[1], key[2])
StoreHasValue(key) == Stored(key).exc = "none" /\ ~is(Stored(key).val, UNSET)
StoreIsUnset(key) == Stored(key).exc = "none" /\ is(Stored(key).val, UNSET)

IsGet == ret.op = "get"

----------------------------------------------------------------------------
(* C1: a lookup of a (section, option) that was never declared raises     *)
(* UndefinedOption, whatever else is declared and whatever was loaded.     *)
C1_UndeclaredRaisesUndefinedOption ==
    (IsGet /\ ~IsDeclared(KeyOf(ret.args))) => ret.out = Raise("UndefinedOption")

(* C2: for a declared (section, option) with a command-line value and a   *)
(* stored value, get returns the command-line value, converted by the     *)
(* converter recorded at declaration.                                      *)
C2_CmdlineWinsOverFile ==
    (/\ IsGet
     /\ IsDeclared(KeyOf(ret.args))
     /\ HasCmdValue(KeyOf(ret.args))
     /\ StoreHasValue(KeyOf(ret.args)))
    => ret.out = convert(_converters[KeyOf(ret.args)], CmdValue(KeyOf(ret.args)))

C2_Witness ==
    /\ IsGet
    /\ KeyOf(ret.args) = <<DEFAULTSECT, port>>
    /\ IsDeclared(KeyOf(ret.args))
    /\ _converters[KeyOf(ret.args)] = "int"
    /\ is(CmdValue(KeyOf(ret.args)), PyStr(s_8080))
    /\ FileGave(KeyOf(ret.args))
    /\ is(Stored(KeyOf(ret.args)).val, PyStr(<<"8", "0">>))
    /\ ret.out.exc = "none"
    /\ is(ret.out.val, PyInt(8080))

(* C3: for a declared (section, option) without a command-line value to   *)
(* which a loaded file gave a value, get returns that value, converted,    *)
(* whether the option was declared before or after the load.               *)
C3_FileValueWinsOverDefault ==
    (/\ IsGet
     /\ IsDeclared(KeyOf(ret.args))
     /\ ~HasCmdValue(KeyOf(ret.args))
     /\ FileGave(KeyOf(ret.args)))
    => ret.out = convert(_converters[KeyOf(ret.args)], FileValue(KeyOf(ret.args)))

(* C4: for a declared (section, option) with a declaration-time default   *)
(* and no command-line or file value, get returns the declared converter   *)
(* applied to the default that was supplied.                               *)
C4_DefaultIsConverted ==
    (/\ IsGet
     /\ IsDeclared(KeyOf(ret.args))
     /\ ~is(declared[KeyOf(ret.args)], UNSET)
     /\ ~HasCmdValue(KeyOf(ret.args))
     /\ ~FileGave(KeyOf(ret.args)))
    => ret.out = convert(_converters[KeyOf(ret.args)],
                         declared[KeyOf(ret.args)])

(* C5, as stated: with a call-time default and no value from the command  *)
(* line or the store, get returns the default as it was passed.            *)
C5_CallDefaultVerbatim ==
    (/\ IsGet
     /\ ret.args.kwargs.has_default
     /\ IsDeclared(KeyOf(ret.args))
     /\ ~HasCmdValue(KeyOf(ret.args))
     /\ StoreIsUnset(KeyOf(ret.args)))
    => ret.out = Return(ret.args.kwargs.default)

(* C5, amended: with a call-time default and no value from the command    *)
(* line or the store, get returns the declared converter applied to the    *)
(* default, and raises what the converter raises.                          *)
C5_CallDefaultConverted ==
    (/\ IsGet
     /\ ret.args.kwargs.has_default
     /\ IsDeclared(KeyOf(ret.args))
     /\ ~HasCmdValue(KeyOf(ret.args))
     /\ StoreIsUnset(KeyOf(ret.args)))
    => ret.out = convert(_converters[KeyOf(ret.args)], ret.args.kwargs.default)

C5_Witness ==
    /\ IsGet
    /\ ret.args.kwargs.has_default
    /\ IsDeclared(KeyOf(ret.args))
    /\ _converters[KeyOf(ret.args)] = "bool"
    /\ ~HasCmdValue(KeyOf(ret.args))
    /\ StoreIsUnset(KeyOf(ret.args))
    /\ is(ret.args.kwargs.default, PyStr(s_t))
    /\ ret.out.exc = "none"
    /\ is(ret.out.val, PyBool(TRUE))

(* C6: when the config-file parameter names a file, that file is the one  *)
(* __call__ loads, also when the command line names another.               *)
C6_ParameterPathPreferred ==
    (/\ ret.op = "__call__"
     /\ ~ret.args.args
     /\ truthy(ret.args.default_conf)
     /\ exists(ret.args.default_conf))
    => is(ret.read, ret.args.default_conf)

\* The required options
Required == {_required[i] : i \in 1..Len(_required)}

\* A required option without a value from the command line, a file or its
\* declaration
RequiredUnset == \E key \in Required : ~HasCmdValue(key) /\ StoreIsUnset(key)

\* Every required option has a non-empty value from the command line or
\* from a loaded file
RequiredSupplied ==
    \A key \in Required :
        \/ HasCmdValue(key) /\ Len(CmdValue(key).v) > 0
        \/ /\ FileGave(key)
           /\ Len(FileValue(key).v) > 0
           /\ is(Stored(key).val, FileValue(key))

(* C7: __call__(check_required=True) raises when a required option has no *)
(* value, and completes when every required option is supplied a          *)
(* non-empty value by a file or the command line, whatever its type.       *)
C7_RequiredCheck ==
    (/\ ret.op = "__call__"
     /\ ~ret.args.args
     /\ ret.args.check_required)
    => /\ RequiredUnset => ret.out.exc # "none"
       /\ RequiredSupplied => ret.out.exc = "none"

\* The lines of a dump that name an option of a section
DumpedOptions(lines) ==
    {<<lines[i].section, lines[i].name>> :
        i \in {j \in 1..Len(lines) : lines[j].name # <<>>}}
DumpedSections(lines) == {lines[i].section : i \in 1..Len(lines)}

(* C8: dump never raises, and logs every declared section and option.     *)
C8_DumpNeverRaises ==
    ret.op = "dump"
    => /\ ret.out.exc = "none"
       /\ \A key \in DOMAIN declared :
            /\ key[1] \in DumpedSections(ret.out.lines)
            /\ <<key[1], optionxform(key[2])>> \in DumpedOptions(ret.out.lines)

(* C9: a define of a (section, name) that is declared already does not    *)
(* raise, and it replaces the converter and the default of the earlier     *)
(* declaration.                                                            *)
C9_RedeclareOverwrites ==
    [][(/\ ret'.op = "define"
        /\ ncalls' = ncalls + 1
        /\ IsDeclared(KeyOf(ret'.args)))
       => /\ ret'.out.exc = "none"
          /\ _converters'[KeyOf(ret'.args)] = ret'.args.type
          /\ is(declared'[KeyOf(ret'.args)], ret'.args.default)]_vars

(* C10: get, without a call-time default, of a declared option that has   *)
(* no declaration-time default, no command-line value and no file value    *)
(* raises UnsetOption, before and after __call__.                          *)
C10_UnsetRaisesUnsetOption ==
    (/\ IsGet
     /\ ~ret.args.kwargs.has_default
     /\ IsDeclared(KeyOf(ret.args))
     /\ is(declared[KeyOf(ret.args)], UNSET)
     /\ ~HasCmdValue(KeyOf(ret.args))
     /\ ~FileGave(KeyOf(ret.args)))
    => ret.out = Raise("UnsetOption")

C10_Witness ==
    /\ IsGet
    /\ ~ret.args.kwargs.has_default
    /\ IsDeclared(KeyOf(ret.args))
    /\ is(declared[KeyOf(ret.args)], UNSET)
    /\ _options.t = "Values"
    /\ ~HasCmdValue(KeyOf(ret.args))
    /\ ~FileGave(KeyOf(ret.args))
    /\ loaded # <<>>
    /\ ret.out = Raise("UnsetOption")

(* C11: a read of an option attribute of a class gives the outcome, value  *)
(* or exception, that the registry's get gives for the descriptor's name   *)
(* in the class's section, also after another class has declared the same  *)
(* (section, name).                                                        *)
C11_AttributeIsGet ==
    ret.op = "__get__"
    => ret.out = get(Self, ret.args.option, ret.args.section, NoKwargs)

\* The other half of C11: a class statement that declares a (section, name)
\* another class declared already does not raise.
C11_RedeclareByClassIsNoError ==
    (ret.op = "ConfMeta" /\ IsDeclared(KeyOf(ret.args))) => ret.out.exc = "none"

\* The empty string
IsEmpty(val) == val.t = "str" /\ val.v = <<>>

\* What get gives from its last tier: the call-time default, converted, or
\* UnsetOption
FromCallDefault(args) ==
    IF args.kwargs.has_default
    THEN convert(_converters[KeyOf(args)], args.kwargs.default)
    ELSE Raise("UnsetOption")

\* What get gives from the store when only a non-empty stored value counts
FromNonEmptyStore(args) ==
    IF StoreHasValue(KeyOf(args)) /\ ~IsEmpty(Stored(KeyOf(args)).val)
    THEN convert(_converters[KeyOf(args)], Stored(KeyOf(args)).val)
    ELSE FromCallDefault(args)

(* C12, as stated: get of a declared option does not return an empty      *)
(* command-line value but what the store gives, and does not return an     *)
(* empty stored value but the call-time default or UnsetOption.            *)
C12_EmptyFallsThrough ==
    (IsGet /\ IsDeclared(KeyOf(ret.args)))
    => /\ IsEmpty(CmdValue(KeyOf(ret.args)))
          => ret.out = FromNonEmptyStore(ret.args)
       /\ (/\ ~HasCmdValue(KeyOf(ret.args))
           /\ StoreHasValue(KeyOf(ret.args))
           /\ IsEmpty(Stored(KeyOf(ret.args)).val))
          => ret.out = FromCallDefault(ret.args)

(* C12, amended: an empty string wins its tier. get of a declared option  *)
(* whose command-line value is the empty string gives the declared         *)
(* converter applied to the empty string, whatever the store holds; and    *)
(* without a command-line value, a stored empty string gives the converter *)
(* applied to the empty string, whatever call-time default is passed.      *)
C12_EmptyWinsItsTier ==
    (IsGet /\ IsDeclared(KeyOf(ret.args)))
    => /\ IsEmpty(CmdValue(KeyOf(ret.args)))
          => ret.out = convert(_converters[KeyOf(ret.args)], PyStr(s_empty))
       /\ (/\ ~HasCmdValue(KeyOf(ret.args))
           /\ StoreHasValue(KeyOf(ret.args))
           /\ IsEmpty(Stored(KeyOf(ret.args)).val))
          => ret.out = convert(_converters[KeyOf(ret.args)], PyStr(s_empty))

\* An empty command-line value wins over the "t" a file gave: False, where
\* the file's value converts to True
C12_Witness ==
    /\ IsGet
    /\ IsDeclared(KeyOf(ret.args))
    /\ _converters[KeyOf(ret.args)] = "bool"
    /\ IsEmpty(CmdValue(KeyOf(ret.args)))
    /\ FileGave(KeyOf(ret.args))
    /\ is(Stored(KeyOf(ret.args)).val, PyStr(s_t))
    /\ ret.out.exc = "none"
    /\ is(ret.out.val, PyBool(FALSE))

\* An empty value a file gave wins over the call-time default
C12_StoredEmptyReached ==
    /\ IsGet
    /\ IsDeclared(KeyOf(ret.args))
    /\ _converters[KeyOf(ret.args)] = "str"
    /\ ~HasCmdValue(KeyOf(ret.args))
    /\ FileGave(KeyOf(ret.args))
    /\ IsEmpty(Stored(KeyOf(ret.args)).val)
    /\ ret.args.kwargs.has_default
    /\ ret.out.exc = "none"
    /\ IsEmpty(ret.out.val)

====
